---- MODULE Spec2Model ----
(***************************************************************************)
(* A model of the kazoo client library: the Client session (constructor,   *)
(* authenticate, _execute_request), the RestResource descriptor (template  *)
(* parsing, request building) and the metaclass that synthesizes the       *)
(* client methods from the declared descriptors.                           *)
(***************************************************************************)
EXTENDS Integers, Sequences, FiniteSets, TLC

VARIABLES
    pc,             \* "import" until the class exists, "new" before Client(...),
                    \* "ready" after it, "failed" when it raised
    ctor,           \* the arguments Client.__init__ was called with
    auth_request,   \* self.auth_request: which credential request was built
    api_key,        \* self.api_key
    authenticated,  \* self._authenticated
    auth_token,     \* self.auth_token
    auth_data,      \* self.auth_data
    lastToken,      \* history: token of the most recent successful credential exchange
    run,            \* history: authenticate() calls since the first success after the last auth failure
    lastCall,       \* history: what the last operation did (executes, exchanges, result)
    resource,       \* a RestResource under construction and use
    lastRequest     \* the request that resource built last, with the call that built it

vars == <<pc, ctor, auth_request, api_key, authenticated, auth_token, auth_data,
          lastToken, run, lastCall, resource, lastRequest>>

(***************************************************************************)
(* Bounds                                                                  *)
(***************************************************************************)
MaxAuthCalls == 3

MaxTemplateLen == 4

(***************************************************************************)
(* Values                                                                  *)
(***************************************************************************)
None == "None"

Tokens == {"tok1", "tok2"}

\* what the constructor may be handed for each credential argument
CredValues == {None, "given"}

\* outcomes of request.execute: a result, KazooApiAuthenticationError, any other exception
ExecOutcomes == {"ok", "auth_error", "other_error"}

\* outcomes of auth_request.execute: a dict with an auth_token, an exception,
\* or a dict without the auth_token key
ExchOutcomes ==
    [kind : {"ok"}, token : Tokens] \cup [kind : {"raise", "notoken"}, token : {None}]

NoCall == [op |-> "none"]

NoResource == [template |-> <<>>, views |-> <<>>, r |-> [err |-> "unbuilt"]]

NoRequest == [op |-> "none"]

EmptyRun == [calls |-> 0, exch |-> 0, toks |-> {}]

\* Python truthiness of an optional string argument
Truthy(v) == v # None

(***************************************************************************)
(* Strings that the library takes apart.  A URL template is a sequence of  *)
(* tokens: "/" , a literal word without braces, or a placeholder {name}.   *)
(* Cutting a string one character short can split a token, which leaves a  *)
(* word without its last character or a placeholder without its "}".       *)
(***************************************************************************)
Slash == [k |-> "slash", v |-> "/"]

Lit(w) == [k |-> "lit", v |-> w]

Ph(n) == [k |-> "ph", v |-> n]

\* the word w without its last character
Chopped(w) == [k |-> "chopped", v |-> w]

\* "{n": a placeholder that lost its closing brace
Open(n) == [k |-> "open", v |-> n]

\* a substituted value, str(v)
Val(v) == [k |-> "val", v |-> v]

\* s[:-1] on a string given as tokens
DropLastChar(s) ==
    IF s = <<>> THEN <<>>
    ELSE LET t == s[Len(s)]
             front == SubSeq(s, 1, Len(s) - 1)
         IN  CASE t.k = "slash" -> front
               [] t.k = "lit" -> IF Len(t.v) = 1 THEN front
                                 ELSE Append(front, Chopped(t.v))
               [] t.k = "ph" -> Append(front, Open(t.v))
               [] OTHER -> front

\* positions of the placeholders of a template
PhPositions(path) == {i \in 1..Len(path) : path[i].k = "ph"}

\* the largest element of a non-empty set of numbers
MaxOf(S) == CHOOSE m \in S : \A n \in S : n <= m

\* the i-th smallest element of S
RECURSIVE SortedSeq(_)
SortedSeq(S) ==
    IF S = {} THEN <<>>
    ELSE LET m == MaxOf(S) IN Append(SortedSeq(S \ {m}), m)

\* str.format(**kwargs): the tokens are consumed left to right; a
\* placeholder without "}" is a ValueError, a name without a value a KeyError
RECURSIVE FormatFrom(_, _, _, _)
FormatFrom(s, i, kwargs, acc) ==
    IF i > Len(s) THEN [err |-> "none", url |-> acc]
    ELSE CASE s[i].k = "open" -> [err |-> "ValueError", url |-> <<>>]
           [] s[i].k = "ph" ->
                IF s[i].v \in DOMAIN kwargs
                THEN FormatFrom(s, i + 1, kwargs, Append(acc, Val(kwargs[s[i].v])))
                ELSE [err |-> "KeyError", url |-> <<>>]
           [] OTHER -> FormatFrom(s, i + 1, kwargs, Append(acc, s[i]))

Format(s, kwargs) == FormatFrom(s, 1, kwargs, <<>>)

(***************************************************************************)
(* KazooRequest: the request a descriptor builds                           *)
(***************************************************************************)
KazooRequest(path, method) ==
    [err |-> "none", path |-> path, method |-> method, auth_required |-> TRUE]

\* a request that could not be built
Raised(e) == [err |-> e, path |-> <<>>, method |-> None, auth_required |-> FALSE]

(***************************************************************************)
(* RestResource                                                            *)
(***************************************************************************)
METHOD_TYPES == {"detail", "list", "update", "create", "delete"}

\* _get_params: the names the regex {([a-zA-Z0-9_]+)} finds, in order
GetParams(path) ==
    LET pos == SortedSeq(PhPositions(path))
    IN  [j \in 1..Len(pos) |-> path[pos[j]].v]

\* _get_resource_path cutting at the brace itself: path[:path.rfind("{")]
GetResourcePath_KeepSlash(path) ==
    LET last == MaxOf(PhPositions(path))
    IN  SubSeq(path, 1, last - 1)

\* _get_resource_path: path[:path.rfind("{") - 1]; the constructor calls it
\* only on a path with a placeholder
GetResourcePath(path) ==
    LET last == MaxOf(PhPositions(path))
    IN  DropLastChar(IF last = 1 THEN path ELSE SubSeq(path, 1, last - 1))

\* _get_required_arguments returning params instead of params[:-1]
GetRequiredArguments_KeepLast(path) ==
    LET params == GetParams(path)
    IN  IF Len(params) > 1 THEN params ELSE <<>>

\* _get_required_arguments
GetRequiredArguments(path) ==
    LET params == GetParams(path)
    IN  IF Len(params) > 1 THEN SubSeq(params, 1, Len(params) - 1) ELSE <<>>

\* _get_object_argument
GetObjectArgument(path) == GetParams(path)[Len(GetParams(path))]

\* one step of _initialize_extra_view_descriptions: a description is a dict
\* or, given as [str |-> s], a plain string
ExtraViewDescription(view_desc) ==
    LET result == IF "str" \in DOMAIN view_desc
                  THEN [name |-> "get_" \o view_desc.str, path |-> view_desc.str]
                  ELSE view_desc
        scoped == IF "scope" \notin DOMAIN result
                  THEN result @@ [scope |-> "aggregate"] ELSE result
    IN  IF "method" \notin DOMAIN scoped
        THEN scoped @@ [method |-> "get"] ELSE scoped

\* the plural_name property
PluralName(name, plural_name) ==
    IF plural_name # None THEN plural_name ELSE name \o "s"

\* _initialize_method_names naming the list method after the singular name
InitializeMethodNames_SingularList(name, plural_name, given_method_names) ==
    given_method_names @@
    [list   |-> "get_" \o name,
     object |-> "get_" \o name,
     update |-> "update_" \o name,
     create |-> "create_" \o name,
     delete |-> "delete_" \o name]

\* _initialize_method_names
InitializeMethodNames(name, plural_name, given_method_names) ==
    given_method_names @@
    [list   |-> "get_" \o PluralName(name, plural_name),
     object |-> "get_" \o name,
     update |-> "update_" \o name,
     create |-> "create_" \o name,
     delete |-> "delete_" \o name]

\* RestResource.__init__
RestResource(name, path, plural_name, extra_views, methods, exclude_methods, method_names) ==
    IF GetParams(path) = <<>>
    THEN [err |-> "ValueError"]
    ELSE [err |-> "none",
          name |-> name,
          plural_name |-> plural_name,
          required_args |-> GetRequiredArguments(path),
          object_arg |-> GetObjectArgument(path),
          path |-> GetResourcePath(path),
          extra_views |-> [j \in 1..Len(extra_views) |->
                              ExtraViewDescription(extra_views[j])],
          methods |-> methods \ exclude_methods,
          method_names |-> InitializeMethodNames(name, plural_name, method_names)]

\* _get_full_url
GetFullUrl(r, params) ==
    IF r.object_arg \notin DOMAIN params
    THEN [err |-> "KeyError", url |-> <<>>]
    ELSE LET f == Format(r.path, params)
         IN  IF f.err # "none" THEN f
             ELSE [err |-> "none",
                   url |-> f.url \o <<Slash, Val(params[r.object_arg])>>]

\* a request on an already formatted URL, or the error of the formatting
RequestOn(f, suffix, method) ==
    IF f.err # "none" THEN Raised(f.err) ELSE KazooRequest(f.url \o suffix, method)

GetListRequest(r, kwargs) == RequestOn(Format(r.path, kwargs), <<>>, "get")

GetObjectRequest(r, kwargs) == RequestOn(GetFullUrl(r, kwargs), <<>>, "get")

GetUpdateObjectRequest(r, kwargs) == RequestOn(GetFullUrl(r, kwargs), <<>>, "post")

GetDeleteObjectRequest(r, kwargs) == RequestOn(GetFullUrl(r, kwargs), <<>>, "delete")

GetCreateObjectRequest(r, kwargs) == RequestOn(Format(r.path, kwargs), <<>>, "put")

\* get_extra_view_request with the test of the scope the wrong way round
GetExtraViewRequest_ScopeSwapped(r, viewname, kwargs) ==
    LET hits == {j \in 1..Len(r.extra_views) : r.extra_views[j].path = viewname}
    IN  IF hits = {} THEN Raised("ValueError")
        ELSE LET view_desc == r.extra_views[MaxOf(hits)]
             IN  IF view_desc.scope # "aggregate"
                 THEN RequestOn(Format(r.path, kwargs), <<Slash, Lit(viewname)>>,
                                view_desc.method)
                 ELSE RequestOn(GetFullUrl(r, kwargs), <<Slash, Lit(viewname)>>,
                                view_desc.method)

\* get_extra_view_request: the loop keeps the last description whose path is
\* the view name
GetExtraViewRequest(r, viewname, kwargs) ==
    LET hits == {j \in 1..Len(r.extra_views) : r.extra_views[j].path = viewname}
    IN  IF hits = {} THEN Raised("ValueError")
        ELSE LET view_desc == r.extra_views[MaxOf(hits)]
             IN  IF view_desc.scope = "aggregate"
                 THEN RequestOn(Format(r.path, kwargs), <<Slash, Lit(viewname)>>,
                                view_desc.method)
                 ELSE RequestOn(GetFullUrl(r, kwargs), <<Slash, Lit(viewname)>>,
                                view_desc.method)

(***************************************************************************)
(* RestClientMetaClass: the functions generated from a descriptor.  A       *)
(* generated function is kept as the pieces its source text is made of:    *)
(* its name, its parameters after self, the descriptor field and builder   *)
(* it calls with those parameters as keywords, and whether it forwards     *)
(* data to _execute_request.                                               *)
(***************************************************************************)
\* _generate_resource_func
GenerateResourceFunc(func_name, resource_field_name, resource_required_args, request_type, extra_view_name, requires_data) ==
    LET required_args == IF requires_data
                         THEN Append(resource_required_args, "data")
                         ELSE resource_required_args
    IN  [name |-> func_name,
         params |-> required_args,
         field |-> resource_field_name,
         request_type |-> request_type,
         extra_view_name |-> extra_view_name,
         get_request_args |-> required_args,
         passes_data |-> requires_data]

\* _generate_list_func
GenerateListFunc(field, r) ==
    IF "list" \notin r.methods THEN <<>>
    ELSE << GenerateResourceFunc(r.method_names["list"], field, r.required_args,
                                 "get_list_request", None, FALSE) >>

\* _generate_get_object_func
GenerateGetObjectFunc(field, r) ==
    IF "detail" \notin r.methods THEN <<>>
    ELSE << GenerateResourceFunc(r.method_names["object"], field,
                                 Append(r.required_args, r.object_arg),
                                 "get_object_request", None, FALSE) >>

\* _generate_delete_object_func leaving the object argument out
GenerateDeleteObjectFunc_NoObject(field, r) ==
    IF "delete" \notin r.methods THEN <<>>
    ELSE << GenerateResourceFunc(r.method_names["delete"], field,
                                 r.required_args,
                                 "get_delete_object_request", None, FALSE) >>

\* _generate_delete_object_func
GenerateDeleteObjectFunc(field, r) ==
    IF "delete" \notin r.methods THEN <<>>
    ELSE << GenerateResourceFunc(r.method_names["delete"], field,
                                 Append(r.required_args, r.object_arg),
                                 "get_delete_object_request", None, FALSE) >>

\* _generate_update_object_func
GenerateUpdateObjectFunc(field, r) ==
    IF "update" \notin r.methods THEN <<>>
    ELSE << GenerateResourceFunc(r.method_names["update"], field,
                                 Append(r.required_args, r.object_arg),
                                 "get_update_object_request", None, TRUE) >>

\* _generate_create_object_func
GenerateCreateObjectFunc(field, r) ==
    IF "create" \notin r.methods THEN <<>>
    ELSE << GenerateResourceFunc(r.method_names["create"], field, r.required_args,
                                 "get_create_object_request", None, TRUE) >>

\* _generate_extra_view_func
GenerateExtraViewFunc(extra_view_desc, field, r) ==
    GenerateResourceFunc(
        extra_view_desc.name, field,
        IF extra_view_desc.scope = "aggregate" THEN r.required_args
        ELSE Append(r.required_args, r.object_arg),
        None, extra_view_desc.path,
        extra_view_desc.method \in {"put", "post"})

\* _add_resource_methods: the functions in the order they are set on the class
AddResourceMethods(field, r) ==
    GenerateListFunc(field, r) \o GenerateGetObjectFunc(field, r)
    \o GenerateDeleteObjectFunc(field, r) \o GenerateUpdateObjectFunc(field, r)
    \o GenerateCreateObjectFunc(field, r)
    \o [j \in 1..Len(r.extra_views) |->
            GenerateExtraViewFunc(r.extra_views[j], field, r)]

\* setattr(cls, func_name, func) for each function of a sequence, in order:
\* a name keeps the last function set under it
SetAttrs(table, funcs) ==
    LET names == {funcs[i].name : i \in 1..Len(funcs)}
    IN  [n \in DOMAIN table \cup names |->
            IF n \in names
            THEN funcs[MaxOf({i \in 1..Len(funcs) : funcs[i].name = n})]
            ELSE table[n]]

\* the request a generated function builds from its keyword arguments
BuildRequest(f, r, kwargs) ==
    CASE f.request_type = "get_list_request" -> GetListRequest(r, kwargs)
      [] f.request_type = "get_object_request" -> GetObjectRequest(r, kwargs)
      [] f.request_type = "get_update_object_request" -> GetUpdateObjectRequest(r, kwargs)
      [] f.request_type = "get_delete_object_request" -> GetDeleteObjectRequest(r, kwargs)
      [] f.request_type = "get_create_object_request" -> GetCreateObjectRequest(r, kwargs)
      [] OTHER -> GetExtraViewRequest(r, f.extra_view_name, kwargs)

(***************************************************************************)
(* The descriptors declared in the body of Client, in order                *)
(***************************************************************************)
Seg(w) == <<Slash, Lit(w)>>

Arg(n) == <<Slash, Ph(n)>>

\* "/accounts/{account_id}"
Acct == Seg("accounts") \o Arg("account_id")

NoViews == <<>>

NoNames == <<>>

Declare(field, name, template, plural_name, extra_views, methods, exclude_methods, method_names) ==
    [field |-> field, template |-> template, views |-> extra_views,
     r |-> RestResource(name, template, plural_name, extra_views, methods,
                        exclude_methods, method_names)]

\* a descriptor declared with just a name and a template
Plain(field, name, template) ==
    Declare(field, name, template, None, NoViews, METHOD_TYPES, {}, NoNames)

ClientResources ==
    << Declare("_accounts_resource", "account", Acct, None,
               << [name |-> "get_account_children", path |-> "children",
                   scope |-> "object"],
                  [name |-> "get_account_descendants", path |-> "descendants",
                   scope |-> "object"] >>,
               METHOD_TYPES, {}, NoNames),
       Plain("_callflow_resource", "callflow",
             Acct \o Seg("callflows") \o Arg("callflow_id")),
       Plain("_conference_resource", "conference",
             Acct \o Seg("conferences") \o Arg("conference_id")),
       Declare("_device_resource", "device",
               Acct \o Seg("devices") \o Arg("device_id"), None,
               << [name |-> "get_all_devices_status", path |-> "status"] >>,
               METHOD_TYPES, {}, NoNames),
       Declare("_directories_resource", "directory",
               Acct \o Seg("directories") \o Arg("directory_id"), "directories",
               NoViews, METHOD_TYPES, {}, NoNames),
       Plain("_groups_resource", "group", Acct \o Seg("groups") \o Arg("group_id")),
       Declare("_limits_resource", "limit",
               Acct \o Seg("limits") \o Arg("ignored"), None, NoViews,
               {"list"}, {}, NoNames),
       Declare("_media_resource", "media",
               Acct \o Seg("media") \o Arg("media_id"), "media", NoViews,
               METHOD_TYPES, {}, [list |-> "get_all_media"]),
       Plain("_menus_resource", "menu", Acct \o Seg("menus") \o Arg("menu_id")),
       Declare("_phone_number_resource", "phone_number",
               Acct \o Seg("phone_numbers") \o Arg("phone_number"), None,
               << [name |-> "activate_phone_number", path |-> "activate",
                   scope |-> "object", method |-> "put"],
                  [name |-> "reserve_phone_number", path |-> "reserve",
                   scope |-> "object", method |-> "put"],
                  [name |-> "add_port_in_number", path |-> "port",
                   scope |-> "object", method |-> "put"] >>,
               {"list", "update", "delete"}, {}, NoNames),
       Plain("_queues_resource", "queue", Acct \o Seg("queues") \o Arg("queue_id")),
       Plain("_rates_resource", "rates", Acct \o Seg("rates") \o Arg("rate_id")),
       Plain("_apps_resource", "app", Acct \o Seg("apps_store") \o Arg("app_id")),
       Plain("_global_resources_resource", "global_resource",
             Seg("resources") \o Arg("resource_id")),
       Plain("_local_resources_resource", "local_resource",
             Acct \o Seg("resources") \o Arg("resource_id")),
       Declare("_server_resource", "server",
               Acct \o Seg("servers") \o Arg("server_id"), None,
               << [name |-> "get_deployment", path |-> "deployment",
                   scope |-> "object"],
                  [name |-> "create_deployment", path |-> "deployment",
                   scope |-> "object", method |-> "put"],
                  [name |-> "get_server_log", path |-> "log"] >>,
               {"list"}, {}, NoNames),
       Plain("_service_plans_resource", "service_plan",
             Acct \o Seg("service_plans") \o Arg("service_plan_id")),
       Plain("_system_configs_resource", "system_config",
             Seg("system_configs") \o Arg("system_config_id")),
       Plain("_temporal_rules_resource", "temporal_rule",
             Acct \o Seg("temporal_rules") \o Arg("rule_id")),
       Declare("_users_resource", "user",
               Acct \o Seg("users") \o Arg("user_id"), None,
               << [name |-> "get_hotdesk", path |-> "hotdesks"] >>,
               METHOD_TYPES, {}, NoNames),
       Declare("_vmbox_resource", "voicemail_box",
               Acct \o Seg("vmboxes") \o Arg("vmbox_id"), "voicemail_boxes",
               NoViews, METHOD_TYPES, {}, NoNames),
       Declare("_phone_number_docs_resource", "phone_number_doc",
               Acct \o Seg("phone_numbers") \o Arg("phone_number") \o Seg("docs")
                    \o Arg("filename"),
               None, NoViews, {"delete"}, {}, NoNames),
       Plain("_webhook_resource", "webhook",
             Acct \o Seg("webhooks") \o Arg("webhook_id")) >>

\* the descriptors as attributes of the class, once its body has run
ClassBody ==
    [field \in {ClientResources[j].field : j \in 1..Len(ClientResources)} |->
        ClientResources[CHOOSE j \in 1..Len(ClientResources) :
                            ClientResources[j].field = field].r]

\* RestClientMetaClass.__init__: every descriptor of the class body, in
\* order, has its functions set on the class
RECURSIVE MetaClassInit(_, _)
MetaClassInit(table, j) ==
    IF j > Len(ClientResources) THEN table
    ELSE MetaClassInit(
            SetAttrs(table, AddResourceMethods(ClientResources[j].field,
                                               ClientResources[j].r)),
            j + 1)

\* the functions the metaclass sets on the class, by name
GeneratedMethods == MetaClassInit(<<>>, 1)

(***************************************************************************)
(* Client.__init__                                                         *)
(***************************************************************************)
\* the outcome of Client(api_key, password, account_name, username):
\* "RuntimeError", or the kind of auth request stored in self.auth_request
\* ClientInit testing only the password before asking for the whole triple
ClientInit_PasswordOnly(a) ==
    IF ~Truthy(a.api_key) /\ ~Truthy(a.password)
    THEN "RuntimeError"
    ELSE IF Truthy(a.password)
         THEN IF ~(Truthy(a.password) /\ Truthy(a.account_name) /\ Truthy(a.username))
              THEN "RuntimeError"
              ELSE "UsernamePasswordAuthRequest"
         ELSE "ApiKeyAuthRequest"

ClientInit(a) ==
    IF ~Truthy(a.api_key) /\ ~Truthy(a.password)
    THEN "RuntimeError"
    ELSE IF Truthy(a.password) \/ Truthy(a.account_name) \/ Truthy(a.username)
         THEN IF ~(Truthy(a.password) /\ Truthy(a.account_name) /\ Truthy(a.username))
              THEN "RuntimeError"
              ELSE "UsernamePasswordAuthRequest"
         ELSE "ApiKeyAuthRequest"

(***************************************************************************)
(* Client.authenticate, as a function of the session and of what the       *)
(* credential exchange answers                                             *)
(***************************************************************************)
Session == [authenticated |-> authenticated, auth_token |-> auth_token,
            auth_data |-> auth_data]

\* authenticate() exchanging credentials whatever the flag says
AuthenticateOp_AlwaysExchange(s, ex) ==
    CASE ex.kind = "raise" ->
            [sess |-> s, raised |-> "exchange_error", ret |-> None,
             exchanges |-> 1, newTok |-> None]
      [] ex.kind = "notoken" ->
            [sess |-> [s EXCEPT !.auth_data = "no_token"],
             raised |-> "KeyError", ret |-> None, exchanges |-> 1, newTok |-> None]
      [] OTHER ->
            [sess |-> [authenticated |-> TRUE, auth_token |-> ex.token,
                       auth_data |-> ex.token],
             raised |-> "none", ret |-> ex.token, exchanges |-> 1,
             newTok |-> ex.token]

AuthenticateOp(s, ex) ==
    IF ~s.authenticated
    THEN CASE ex.kind = "raise" ->
                [sess |-> s, raised |-> "exchange_error", ret |-> None,
                 exchanges |-> 1, newTok |-> None]
           [] ex.kind = "notoken" ->
                [sess |-> [s EXCEPT !.auth_data = "no_token"],
                 raised |-> "KeyError", ret |-> None, exchanges |-> 1, newTok |-> None]
           [] OTHER ->
                [sess |-> [authenticated |-> TRUE, auth_token |-> ex.token,
                           auth_data |-> ex.token],
                 raised |-> "none", ret |-> ex.token, exchanges |-> 1,
                 newTok |-> ex.token]
    ELSE [sess |-> s, raised |-> "none", ret |-> s.auth_token, exchanges |-> 0,
          newTok |-> None]

\* history of the authenticate() calls made since the first successful one
RunAfter(r, res) ==
    IF r.calls = 0 /\ res.raised # "none"
    THEN r
    ELSE [calls |-> r.calls + 1,
          exch  |-> r.exch + res.exchanges,
          toks  |-> IF res.raised = "none" THEN r.toks \cup {res.ret} ELSE r.toks]

(***************************************************************************)
(* Client._execute_request                                                 *)
(***************************************************************************)
\* _execute_request retrying once more after a second authentication error
ExecuteRequestOp_ThirdExecute(s, request, o1, ex, o2) ==
    LET tok1 == IF request.auth_required THEN s.auth_token ELSE "absent"
    IN  IF o1 # "auth_error"
        THEN [sess |-> s, executes |-> 1, exchanges |-> 0, passed |-> <<tok1>>,
              result |-> IF o1 = "ok" THEN "returned" ELSE "raised_other",
              authres |-> [raised |-> "notcalled"], first |-> o1]
        ELSE LET cleared == [s EXCEPT !.authenticated = FALSE, !.auth_token = None]
                 a == AuthenticateOp(cleared, ex)
             IN  IF a.raised # "none"
                 THEN [sess |-> a.sess, executes |-> 1, exchanges |-> a.exchanges,
                       passed |-> <<tok1>>, result |-> "raised_" \o a.raised,
                       authres |-> a, first |-> o1]
                 ELSE IF o2 = "auth_error"
                 THEN [sess |-> a.sess, executes |-> 3, exchanges |-> a.exchanges + 1,
                       passed |-> <<tok1, a.sess.auth_token, a.sess.auth_token>>,
                       result |-> "raised_auth", authres |-> a, first |-> o1]
                 ELSE [sess |-> a.sess, executes |-> 2, exchanges |-> a.exchanges,
                       passed |-> <<tok1, a.sess.auth_token>>,
                       result |-> IF o2 = "ok" THEN "returned" ELSE "raised_other",
                       authres |-> a, first |-> o1]

\* _execute_request catching every exception, not only the authentication error
ExecuteRequestOp_CatchAll(s, request, o1, ex, o2) ==
    LET tok1 == IF request.auth_required THEN s.auth_token ELSE "absent"
    IN  IF o1 = "ok"
        THEN [sess |-> s, executes |-> 1, exchanges |-> 0, passed |-> <<tok1>>,
              result |-> "returned",
              authres |-> [raised |-> "notcalled"], first |-> o1]
        ELSE LET cleared == [s EXCEPT !.authenticated = FALSE, !.auth_token = None]
                 a == AuthenticateOp(cleared, ex)
             IN  IF a.raised # "none"
                 THEN [sess |-> a.sess, executes |-> 1, exchanges |-> a.exchanges,
                       passed |-> <<tok1>>, result |-> "raised_" \o a.raised,
                       authres |-> a, first |-> o1]
                 ELSE [sess |-> a.sess, executes |-> 2, exchanges |-> a.exchanges,
                       passed |-> <<tok1, a.sess.auth_token>>,
                       result |-> CASE o2 = "ok" -> "returned"
                                    [] o2 = "auth_error" -> "raised_auth"
                                    [] OTHER -> "raised_other",
                       authres |-> a, first |-> o1]

\* _execute_request clearing the flag but keeping the token before it
\* re-authenticates
ExecuteRequestOp_KeepToken(s, request, o1, ex, o2) ==
    LET tok1 == IF request.auth_required THEN s.auth_token ELSE "absent"
    IN  IF o1 # "auth_error"
        THEN [sess |-> s, executes |-> 1, exchanges |-> 0, passed |-> <<tok1>>,
              result |-> IF o1 = "ok" THEN "returned" ELSE "raised_other",
              authres |-> [raised |-> "notcalled"], first |-> o1]
        ELSE LET cleared == [s EXCEPT !.authenticated = FALSE]
                 a == AuthenticateOp(cleared, ex)
             IN  IF a.raised # "none"
                 THEN [sess |-> a.sess, executes |-> 1, exchanges |-> a.exchanges,
                       passed |-> <<tok1>>, result |-> "raised_" \o a.raised,
                       authres |-> a, first |-> o1]
                 ELSE [sess |-> a.sess, executes |-> 2, exchanges |-> a.exchanges,
                       passed |-> <<tok1, a.sess.auth_token>>,
                       result |-> CASE o2 = "ok" -> "returned"
                                    [] o2 = "auth_error" -> "raised_auth"
                                    [] OTHER -> "raised_other",
                       authres |-> a, first |-> o1]

\* _execute_request re-authenticating but returning without the retry
ExecuteRequestOp_NoRetry(s, request, o1, ex, o2) ==
    LET tok1 == IF request.auth_required THEN s.auth_token ELSE "absent"
    IN  IF o1 # "auth_error"
        THEN [sess |-> s, executes |-> 1, exchanges |-> 0, passed |-> <<tok1>>,
              result |-> IF o1 = "ok" THEN "returned" ELSE "raised_other",
              authres |-> [raised |-> "notcalled"], first |-> o1]
        ELSE LET cleared == [s EXCEPT !.authenticated = FALSE, !.auth_token = None]
                 a == AuthenticateOp(cleared, ex)
             IN  IF a.raised # "none"
                 THEN [sess |-> a.sess, executes |-> 1, exchanges |-> a.exchanges,
                       passed |-> <<tok1>>, result |-> "raised_" \o a.raised,
                       authres |-> a, first |-> o1]
                 ELSE [sess |-> a.sess, executes |-> 1, exchanges |-> a.exchanges,
                       passed |-> <<tok1>>, result |-> "raised_auth",
                       authres |-> a, first |-> o1]

\* request: [auth_required]; o1, o2: outcomes of the first and second
\* request.execute; ex: answer of the credential exchange
ExecuteRequestOp(s, request, o1, ex, o2) ==
    LET tok1 == IF request.auth_required THEN s.auth_token ELSE "absent"
    IN  IF o1 # "auth_error"
        THEN [sess |-> s, executes |-> 1, exchanges |-> 0, passed |-> <<tok1>>,
              result |-> IF o1 = "ok" THEN "returned" ELSE "raised_other",
              authres |-> [raised |-> "notcalled"], first |-> o1]
        ELSE LET cleared == [s EXCEPT !.authenticated = FALSE, !.auth_token = None]
                 a == AuthenticateOp(cleared, ex)
             IN  IF a.raised # "none"
                 THEN [sess |-> a.sess, executes |-> 1, exchanges |-> a.exchanges,
                       passed |-> <<tok1>>, result |-> "raised_" \o a.raised,
                       authres |-> a, first |-> o1]
                 ELSE [sess |-> a.sess, executes |-> 2, exchanges |-> a.exchanges,
                       passed |-> <<tok1, a.sess.auth_token>>,
                       result |-> CASE o2 = "ok" -> "returned"
                                    [] o2 = "auth_error" -> "raised_auth"
                                    [] OTHER -> "raised_other",
                       authres |-> a, first |-> o1]

(***************************************************************************)
(* Client.manual_request, as a function of the session, of the arguments   *)
(* and of what the transport answers                                       *)
(***************************************************************************)
\* what requests.<method>(url, ...) can do: raise, or return a response with
\* a status and a body that is JSON with a "data" key, JSON without one, or
\* not JSON at all
Statuses == {200, 304, 401, 500}

Bodies ==
    {[form |-> "json_data", data |-> "d1"], [form |-> "json_nodata", data |-> None],
     [form |-> "not_json", data |-> None]}

Responses ==
    [kind : {"response"}, status : Statuses, body : Bodies]
        \cup {[kind |-> "raise", status |-> 0, body |-> [form |-> "none", data |-> None]]}

\* the arguments of a call: method names as the caller spells them, the
\* headers argument (None or a dict), the data argument (a dict or a text)
ManualMethods == {"get", "PUT"}

ManualHeaders == {<<>>, "X-Auth-Token" :> "custom"}

ManualData == {[kind |-> "dict", v |-> "d"], [kind |-> "text", v |-> "d"]}

\* str.lower on the method names of the universe
Lower(method) == IF method = "PUT" THEN "put" ELSE method

\* json.dumps(data) for a dict, data itself otherwise
SentData(data) ==
    IF data.kind = "dict" THEN [kind |-> "text", v |-> "json(" \o data.v \o ")"]
    ELSE data

\* r.ok of requests.Response: the status is below 400
ResponseOk(r) == r.status < 400

\* manual_request answering a successful response with the whole parsed body
ManualRequestOp_WholeBody(s, uri, method, headers, data, r) ==
    LET headers_ == headers @@ ("Content-Type" :> "application/json"
                                @@ "X-Auth-Token" :> s.auth_token)
        sent == [url |-> <<"base_url", uri>>, method |-> Lower(method),
                 headers |-> headers_, data |-> SentData(data)]
    IN  CASE r.kind = "raise" ->
               [sess |-> s, sent |-> sent, raised |-> "RequestException",
                flag |-> FALSE, value |-> "none"]
          [] r.kind = "response" /\ ResponseOk(r) /\ r.body.form = "not_json" ->
               [sess |-> s, sent |-> sent, raised |-> "ValueError",
                flag |-> FALSE, value |-> "none"]
          [] r.kind = "response" /\ ResponseOk(r) /\ r.body.form # "not_json" ->
               [sess |-> s, sent |-> sent, raised |-> "none",
                flag |-> TRUE, value |-> "body"]
          [] OTHER ->
               [sess |-> s, sent |-> sent, raised |-> "none",
                flag |-> FALSE, value |-> "response"]

\* manual_request dropping the session's token when the platform answers 401
ManualRequestOp_ForgetOn401(s, uri, method, headers, data, r) ==
    LET headers_ == headers @@ ("Content-Type" :> "application/json"
                                @@ "X-Auth-Token" :> s.auth_token)
        sent == [url |-> <<"base_url", uri>>, method |-> Lower(method),
                 headers |-> headers_, data |-> SentData(data)]
        after == IF r.kind = "response" /\ r.status = 401
                 THEN [s EXCEPT !.authenticated = FALSE, !.auth_token = None]
                 ELSE s
    IN  CASE r.kind = "raise" ->
               [sess |-> after, sent |-> sent, raised |-> "RequestException",
                flag |-> FALSE, value |-> "none"]
          [] r.kind = "response" /\ ResponseOk(r) /\ r.body.form = "not_json" ->
               [sess |-> after, sent |-> sent, raised |-> "ValueError",
                flag |-> FALSE, value |-> "none"]
          [] r.kind = "response" /\ ResponseOk(r) /\ r.body.form = "json_nodata" ->
               [sess |-> after, sent |-> sent, raised |-> "KeyError",
                flag |-> FALSE, value |-> "none"]
          [] r.kind = "response" /\ ResponseOk(r) /\ r.body.form = "json_data" ->
               [sess |-> after, sent |-> sent, raised |-> "none",
                flag |-> TRUE, value |-> r.body.data]
          [] OTHER ->
               [sess |-> after, sent |-> sent, raised |-> "none",
                flag |-> FALSE, value |-> "response"]

\* manual_request: the session is read for the token header and returned as
\* it was; value says what the second component of the returned tuple is
ManualRequestOp(s, uri, method, headers, data, r) ==
    LET headers_ == headers @@ ("Content-Type" :> "application/json"
                                @@ "X-Auth-Token" :> s.auth_token)
        sent == [url |-> <<"base_url", uri>>, method |-> Lower(method),
                 headers |-> headers_, data |-> SentData(data)]
    IN  CASE r.kind = "raise" ->
               [sess |-> s, sent |-> sent, raised |-> "RequestException",
                flag |-> FALSE, value |-> "none"]
          [] r.kind = "response" /\ ResponseOk(r) /\ r.body.form = "not_json" ->
               [sess |-> s, sent |-> sent, raised |-> "ValueError",
                flag |-> FALSE, value |-> "none"]
          [] r.kind = "response" /\ ResponseOk(r) /\ r.body.form = "json_nodata" ->
               [sess |-> s, sent |-> sent, raised |-> "KeyError",
                flag |-> FALSE, value |-> "none"]
          [] r.kind = "response" /\ ResponseOk(r) /\ r.body.form = "json_data" ->
               [sess |-> s, sent |-> sent, raised |-> "none",
                flag |-> TRUE, value |-> r.body.data]
          [] OTHER ->
               [sess |-> s, sent |-> sent, raised |-> "none",
                flag |-> FALSE, value |-> "response"]

(***************************************************************************)
(* Actions                                                                 *)
(***************************************************************************)
Init ==
    /\ pc = "import"
    /\ ctor = [api_key |-> None, password |-> None, account_name |-> None,
               username |-> None]
    /\ auth_request = None
    /\ api_key = None
    /\ authenticated = FALSE
    /\ auth_token = None
    /\ auth_data = None
    /\ lastToken = None
    /\ run = EmptyRun
    /\ lastCall = NoCall
    /\ resource = NoResource
    /\ lastRequest = NoRequest

\* the class statement: the metaclass runs once the body has been executed;
\* from then on the class has the attributes ClassMethods
DefineClient ==
    /\ pc = "import"
    /\ pc' = "new"
    /\ UNCHANGED <<ctor, auth_request, api_key, authenticated,
                   auth_token, auth_data, lastToken, run, lastCall, resource,
                   lastRequest>>

Construct ==
    /\ pc = "new"
    /\ \E a \in [api_key : CredValues, password : CredValues,
                 account_name : CredValues, username : CredValues] :
          /\ ctor' = a
          /\ IF ClientInit(a) = "RuntimeError"
             THEN /\ pc' = "failed"
                  /\ UNCHANGED <<auth_request, api_key>>
             ELSE /\ pc' = "ready"
                  /\ auth_request' = ClientInit(a)
                  /\ api_key' = a.api_key
          /\ lastCall' = [op |-> "init"]
    /\ authenticated' = FALSE
    /\ auth_token' = None
    /\ UNCHANGED <<auth_data, lastToken, run, resource, lastRequest>>

Authenticate ==
    /\ pc = "ready"
    /\ run.calls < MaxAuthCalls
    /\ \E ex \in ExchOutcomes :
          LET a == AuthenticateOp(Session, ex)
          IN  /\ authenticated' = a.sess.authenticated
              /\ auth_token' = a.sess.auth_token
              /\ auth_data' = a.sess.auth_data
              /\ lastToken' = IF a.newTok # None THEN a.newTok ELSE lastToken
              /\ run' = RunAfter(run, a)
              /\ lastCall' = [op |-> "authenticate", raised |-> a.raised,
                              ret |-> a.ret, exchanges |-> a.exchanges,
                              before |-> Session]
    /\ UNCHANGED <<pc, ctor, auth_request, api_key, resource, lastRequest>>

ExecuteRequest ==
    /\ pc = "ready"
    /\ \E request \in [auth_required : BOOLEAN], o1, o2 \in ExecOutcomes,
          ex \in ExchOutcomes :
          LET r == ExecuteRequestOp(Session, request, o1, ex, o2)
          IN  /\ authenticated' = r.sess.authenticated
              /\ auth_token' = r.sess.auth_token
              /\ auth_data' = r.sess.auth_data
              /\ lastToken' = IF r.exchanges > 0 /\ r.authres.newTok # None
                              THEN r.authres.newTok ELSE lastToken
              /\ run' = IF o1 = "auth_error" THEN RunAfter(EmptyRun, r.authres)
                        ELSE run
              /\ lastCall' = [op |-> "execute", request |-> request, first |-> o1,
                              second |-> o2, exch |-> ex.kind,
                              executes |-> r.executes, exchanges |-> r.exchanges,
                              passed |-> r.passed, result |-> r.result,
                              before |-> Session]
    /\ UNCHANGED <<pc, ctor, auth_request, api_key, resource, lastRequest>>

ManualRequest ==
    /\ pc = "ready"
    /\ \E method \in ManualMethods, headers \in ManualHeaders, data \in ManualData,
          r \in Responses :
          LET m == ManualRequestOp(Session, "/uri", method, headers, data, r)
          IN  /\ authenticated' = m.sess.authenticated
              /\ auth_token' = m.sess.auth_token
              /\ auth_data' = m.sess.auth_data
              /\ lastCall' = [op |-> "manual", response |-> r, sent |-> m.sent,
                              raised |-> m.raised, flag |-> m.flag,
                              value |-> m.value, before |-> Session]
    /\ UNCHANGED <<pc, ctor, auth_request, api_key, lastToken, run, resource,
                   lastRequest>>

Next == DefineClient \/ Construct \/ Authenticate \/ ExecuteRequest \/ ManualRequest

Spec == Init /\ [][Next]_vars

(***************************************************************************)
(* A descriptor on its own: RestResource(...) on any small template, then  *)
(* the requests it builds                                                  *)
(***************************************************************************)
sessionVars == <<pc, ctor, auth_request, api_key, authenticated, auth_token,
                 auth_data, lastToken, run, lastCall>>

TemplateTokens == {Slash, Lit("ab"), Ph("p"), Ph("q")}

Templates == UNION {[1..n -> TemplateTokens] : n \in 1..MaxTemplateLen}

ArgValues == {"v1", "v2"}

\* the keyword arguments a request builder may be called with
Kwargs == UNION {[names -> ArgValues] : names \in SUBSET {"p", "q"}}

\* the extra views a descriptor may be declared with
ViewLists ==
    { <<>>,
      << [str |-> "log"],
         [name |-> "get_dep", path |-> "dep", scope |-> "object"],
         [name |-> "put_dep", path |-> "dep", scope |-> "object", method |-> "put"] >>,
      << [name |-> "post_dep", path |-> "dep", scope |-> "aggregate",
          method |-> "post"],
         [name |-> "get_log_of", path |-> "log", scope |-> "object"],
         [name |-> "get_log", path |-> "log"] >> }

ViewNames == {"log", "dep"}

InitRes == Init

NewResource ==
    /\ resource = NoResource
    /\ \E path \in Templates, views \in ViewLists :
          /\ resource' = [template |-> path, views |-> views,
                          r |-> RestResource("thing", path, None, views,
                                             METHOD_TYPES, {}, <<>>)]
    /\ UNCHANGED <<lastRequest, sessionVars>>

Built == resource # NoResource /\ resource.r.err = "none"

ListRequest ==
    /\ Built
    /\ \E kwargs \in Kwargs :
          lastRequest' = [op |-> "list", view |-> None, kwargs |-> kwargs,
                      req |-> GetListRequest(resource.r, kwargs)]
    /\ UNCHANGED <<resource, sessionVars>>

ObjectRequest ==
    /\ Built
    /\ \E kwargs \in Kwargs :
          lastRequest' = [op |-> "detail", view |-> None, kwargs |-> kwargs,
                      req |-> GetObjectRequest(resource.r, kwargs)]
    /\ UNCHANGED <<resource, sessionVars>>

UpdateObjectRequest ==
    /\ Built
    /\ \E kwargs \in Kwargs :
          lastRequest' = [op |-> "update", view |-> None, kwargs |-> kwargs,
                      req |-> GetUpdateObjectRequest(resource.r, kwargs)]
    /\ UNCHANGED <<resource, sessionVars>>

DeleteObjectRequest ==
    /\ Built
    /\ \E kwargs \in Kwargs :
          lastRequest' = [op |-> "delete", view |-> None, kwargs |-> kwargs,
                      req |-> GetDeleteObjectRequest(resource.r, kwargs)]
    /\ UNCHANGED <<resource, sessionVars>>

CreateObjectRequest ==
    /\ Built
    /\ \E kwargs \in Kwargs :
          lastRequest' = [op |-> "create", view |-> None, kwargs |-> kwargs,
                      req |-> GetCreateObjectRequest(resource.r, kwargs)]
    /\ UNCHANGED <<resource, sessionVars>>

ExtraViewRequest ==
    /\ Built
    /\ \E viewname \in ViewNames, kwargs \in Kwargs :
          lastRequest' = [op |-> "view", view |-> viewname, kwargs |-> kwargs,
                      req |-> GetExtraViewRequest(resource.r, viewname, kwargs)]
    /\ UNCHANGED <<resource, sessionVars>>

NextRes ==
    \/ NewResource
    \/ ListRequest
    \/ ObjectRequest
    \/ UpdateObjectRequest
    \/ DeleteObjectRequest
    \/ CreateObjectRequest
    \/ ExtraViewRequest

SpecRes == InitRes /\ [][NextRes]_vars

(***************************************************************************)
(* The generated methods in use: the class is defined, a client is made    *)
(* and its generated methods are called                                    *)
(***************************************************************************)
\* the generated functions that class Client has, by name
ClassMethods == IF pc = "import" THEN <<>> ELSE GeneratedMethods

\* the methods written by hand in the body of class Client
HandWrittenMethods ==
    {"__init__", "authenticate", "_execute_request", "search_phone_numbers",
     "create_phone_number", "get_phone_number", "upload_media_file",
     "upload_phone_number_file", "list_devices_by_owner", "list_child_accounts",
     "upload_ratedeck", "add_service_plans_to_account", "manual_request",
     "list_apps", "activate_app", "activate_apps", "sup"}

\* the positional arguments of a call, told apart by their position
PositionalArgs == <<"arg1", "arg2", "arg3", "arg4">>

ArgsOf(f) == SubSeq(PositionalArgs, 1, Len(f.params))

\* the keyword arguments the body of a generated function passes on:
\* name=name for each of its parameters
KeywordsOf(f, args) ==
    [n \in {f.get_request_args[i] : i \in 1..Len(f.get_request_args)} |->
        args[CHOOSE i \in 1..Len(f.params) : f.params[i] = n]]

\* the request each generated function builds when called with PositionalArgs
RequestOfCall ==
    [name \in DOMAIN GeneratedMethods |->
        LET f == GeneratedMethods[name]
        IN  BuildRequest(f, ClassBody[f.field], KeywordsOf(f, ArgsOf(f)))]

\* client.<name>(*args) for a generated function: the request is built, then
\* handed to _execute_request
CallMethod ==
    /\ pc = "ready"
    /\ \E name \in DOMAIN ClassMethods, o1 \in ExecOutcomes :
       \E ex \in IF o1 = "auth_error" THEN ExchOutcomes
                 ELSE {[kind |-> "raise", token |-> None]} :
       \E o2 \in IF o1 = "auth_error" /\ ex.kind = "ok" THEN ExecOutcomes ELSE {"ok"} :
       \E f \in {ClassMethods[name]}, req \in {RequestOfCall[name]} :
          /\ lastCall' = [op |-> "method", name |-> name, args |-> ArgsOf(f),
                          request |-> req,
                          data |-> IF f.passes_data /\ req.err = "none"
                                   THEN ArgsOf(f)[Len(f.params)] ELSE None]
          /\ IF req.err # "none"
             THEN UNCHANGED <<authenticated, auth_token, auth_data, lastToken, run>>
             ELSE \E r \in {ExecuteRequestOp(Session, req, o1, ex, o2)} :
                  /\ authenticated' = r.sess.authenticated
                  /\ auth_token' = r.sess.auth_token
                  /\ auth_data' = r.sess.auth_data
                  /\ lastToken' = IF r.exchanges > 0 /\ r.authres.newTok # None
                                  THEN r.authres.newTok ELSE lastToken
                  /\ run' = IF o1 = "auth_error"
                            THEN RunAfter(EmptyRun, r.authres) ELSE run
    /\ UNCHANGED <<pc, ctor, auth_request, api_key, resource, lastRequest>>

NextClient == DefineClient \/ Construct \/ CallMethod

SpecClient == Init /\ [][NextClient]_vars

(***************************************************************************)
(* Properties of a descriptor                                              *)
(***************************************************************************)
\* the template with every placeholder replaced by its value
Substituted(s, kwargs) ==
    [i \in 1..Len(s) |-> IF s[i].k = "ph" THEN Val(kwargs[s[i].v]) ELSE s[i]]

PhNames(s) == {s[i].v : i \in PhPositions(s)}

EndsInPlaceholder(s) == Len(s) >= 1 /\ s[Len(s)].k = "ph"

EndsInSlashPlaceholder(s) ==
    Len(s) >= 2 /\ s[Len(s)].k = "ph" /\ s[Len(s) - 1].k = "slash"

\* the template without its trailing "/{objectArg}"
WithoutObjectSegment(s) ==
    IF EndsInSlashPlaceholder(s) THEN SubSeq(s, 1, Len(s) - 2)
    ELSE SubSeq(s, 1, Len(s) - 1)

\* what the claim expects of the last request built from template s
ExpectedOfRequest(s) ==
    LET base   == WithoutObjectSegment(s)
        kw     == lastRequest.kwargs
        req    == lastRequest.req
        baseUrl == Substituted(base, kw)
        objUrl == Substituted(s, kw)
        IsReq(url, method) ==
            req.err = "none" /\ req.path = url /\ req.method = method
    IN  /\ resource.r.path = base
        /\ (lastRequest.op = "list" /\ PhNames(base) \subseteq DOMAIN kw)
              => IsReq(baseUrl, "get")
        /\ (lastRequest.op = "create" /\ PhNames(base) \subseteq DOMAIN kw)
              => IsReq(baseUrl, "put")
        /\ (lastRequest.op = "detail" /\ PhNames(s) \subseteq DOMAIN kw)
              => /\ IsReq(objUrl, "get")
                 /\ objUrl = baseUrl \o <<Slash, Val(kw[resource.r.object_arg])>>
        /\ (lastRequest.op = "update" /\ PhNames(s) \subseteq DOMAIN kw)
              => IsReq(objUrl, "post")
        /\ (lastRequest.op = "delete" /\ PhNames(s) \subseteq DOMAIN kw)
              => IsReq(objUrl, "delete")

\* C8 (as stated): for every descriptor whose template ends in its last
\* placeholder and every assignment of values, the base path is the template
\* without the trailing object segment, list is GET and create is PUT on the
\* substituted base path, detail is GET, update POST and delete DELETE on the
\* fully substituted template.
C8_AsStated ==
    (Built /\ EndsInPlaceholder(resource.template) /\ lastRequest.op # "none")
        => ExpectedOfRequest(resource.template)

\* C8 (amended): the same, for every descriptor whose template ends in "/"
\* followed by its last placeholder.
C8_RequestsOfTemplate ==
    (Built /\ EndsInSlashPlaceholder(resource.template) /\ lastRequest.op # "none")
        => ExpectedOfRequest(resource.template)

C8_Witness ==
    /\ Built
    /\ resource.template = <<Slash, Ph("p"), Slash, Ph("q")>>
    /\ lastRequest.op = "update"
    /\ lastRequest.kwargs = [p |-> "v1", q |-> "v2"]
    /\ lastRequest.req.path = <<Slash, Val("v1"), Slash, Val("v2")>>
    /\ lastRequest.req.method = "post"

\* the path and the scope a view is declared with: a plain string is its own
\* path, and a description without a scope says nothing about it
DeclaredPath(view_desc) ==
    IF "str" \in DOMAIN view_desc THEN view_desc.str ELSE view_desc.path

DeclaredScope(view_desc) ==
    IF "scope" \in DOMAIN view_desc THEN view_desc.scope ELSE "unscoped"

\* the declared description a view name stands for: the last one with that path
ViewNamed(views, viewname) ==
    views[MaxOf({i \in 1..Len(views) : DeclaredPath(views[i]) = viewname})]

IsDeclaredView(views, viewname) ==
    \E i \in 1..Len(views) : DeclaredPath(views[i]) = viewname

\* a base path that str.format can substitute from kw
Substitutable(path, kw) ==
    /\ \A i \in 1..Len(path) : path[i].k # "open"
    /\ PhNames(path) \subseteq DOMAIN kw

\* the example of the server descriptor of Client: view deployment of server
\* srv1 of account acc1
ServerDeploymentExample ==
    GetExtraViewRequest(ClassBody["_server_resource"], "deployment",
                        [account_id |-> "acc1", server_id |-> "srv1"])

PlaceholderSeq(t) ==
    SelectSeq([i \in 1..Len(t) |-> IF t[i].k = "ph" THEN t[i].v ELSE None],
              LAMBDA n : n # None)

\* C15: constructing a RestResource raises the configuration error exactly
\* when the template has no placeholder; otherwise object_arg is the last
\* placeholder, required_args are the ones before it in order (none when there
\* is one placeholder), and required_args followed by object_arg is the
\* sequence of the placeholders.
C15_ArgumentsOfTemplate ==
    resource # NoResource =>
        LET ph == PlaceholderSeq(resource.template)
            r == resource.r
        IN  /\ (r.err = "ValueError") <=> (ph = <<>>)
            /\ r.err \in {"none", "ValueError"}
            /\ ph # <<>> =>
                  /\ r.object_arg = ph[Len(ph)]
                  /\ r.required_args = SubSeq(ph, 1, Len(ph) - 1)
                  /\ Len(ph) = 1 => r.required_args = <<>>
                  /\ Append(r.required_args, r.object_arg) = ph

C15_Witness ==
    /\ resource # NoResource
    /\ resource.template = <<Ph("q"), Slash, Lit("ab"), Ph("p")>>
    /\ resource.r.err = "none"
    /\ resource.r.required_args = <<"q">>
    /\ resource.r.object_arg = "p"

C15_WitnessRejected ==
    /\ resource # NoResource
    /\ resource.template = <<Slash, Lit("ab"), Slash>>
    /\ resource.r.err = "ValueError"

(***************************************************************************)
(* Properties of the generated methods                                     *)
(***************************************************************************)
Declared == 1..Len(ClientResources)

\* the placeholder names of a declared template, in the order they are written
PlaceholdersOf(j) ==
    LET t == ClientResources[j].template
    IN  SelectSeq([i \in 1..Len(t) |-> IF t[i].k = "ph" THEN t[i].v ELSE None],
                  LAMBDA n : n # None)

WithoutLast(q) == SubSeq(q, 1, Len(q) - 1)

\* the parameters the claim gives the method of operation op of descriptor j
ParamsOfOperation(j, op) ==
    LET all == PlaceholdersOf(j)
    IN  CASE op = "list" -> WithoutLast(all)
          [] op = "create" -> Append(WithoutLast(all), "data")
          [] op = "update" -> Append(all, "data")
          [] OTHER -> all

\* the parameters the claim gives the method of extra view v of descriptor j
ParamsOfView(j, v) ==
    LET all == PlaceholdersOf(j)
        path == IF v.scope = "aggregate" THEN WithoutLast(all) ELSE all
    IN  IF v.method \in {"put", "post"} THEN Append(path, "data") ELSE path

\* the name under which the method of an operation is generated
NameOfOperation(j, op) ==
    ClientResources[j].r.method_names[IF op = "detail" THEN "object" ELSE op]

\* the values substituted into a URL, in order
ValuesIn(url) ==
    LET vals == SelectSeq(url, LAMBDA t : t.k = "val")
    IN  [i \in 1..Len(vals) |-> vals[i].v]

DeclaredMethod(view_desc) ==
    IF "method" \in DOMAIN view_desc THEN view_desc.method ELSE "get"

\* C10: a call of a generated extra-view method issues its request with the
\* HTTP method declared in the view's own description (GET when none is
\* declared), also when another view of the descriptor has the same path.
C10_ViewMethod ==
    lastCall.op = "method" =>
        \A j \in Declared :
           \A i \in 1..Len(ClientResources[j].views) :
              ClientResources[j].views[i].name = lastCall.name
                 => lastCall.request.method
                        = DeclaredMethod(ClientResources[j].views[i])

(***************************************************************************)
(* Properties of the session                                               *)
(***************************************************************************)
IsExecute == lastCall.op = "execute"

AuthRetry == IsExecute /\ lastCall.first = "auth_error"

\* C1 (as stated): whenever the first request.execute of a call raises the
\* authentication error, exactly one credential exchange and exactly one
\* further request.execute occur, and a second authentication error is
\* surfaced after those two executes.
C1_AsStated ==
    AuthRetry =>
        /\ lastCall.exchanges = 1
        /\ lastCall.executes = 2
        /\ (lastCall.second = "auth_error" => lastCall.result = "raised_auth")

\* C1 (amended): whenever the first request.execute of a call raises the
\* authentication error, exactly one credential exchange is attempted; when
\* it succeeds exactly one further request.execute occurs and a second
\* authentication error is surfaced with no third execute; when it fails no
\* further execute occurs and its failure is surfaced.  No call executes the
\* request more than twice or exchanges credentials more than once.
C1_SingleRetry ==
    /\ IsExecute => (lastCall.executes \in {1, 2} /\ lastCall.exchanges \in {0, 1})
    /\ AuthRetry =>
        /\ lastCall.exchanges = 1
        /\ lastCall.exch = "ok" =>
              /\ lastCall.executes = 2
              /\ (lastCall.second = "auth_error" => lastCall.result = "raised_auth")
        /\ lastCall.exch # "ok" =>
              /\ lastCall.executes = 1
              /\ lastCall.result \in {"raised_exchange_error", "raised_KeyError"}

C1_Witness ==
    /\ AuthRetry
    /\ lastCall.exch = "ok"
    /\ lastCall.second = "auth_error"
    /\ lastCall.result = "raised_auth"

\* C2: in a sequence of authenticate() calls that starts with a successful one
\* and has no authentication failure in between, exactly one credential
\* exchange is issued and every call returns the one stored token.
C2_AuthenticateIdempotent ==
    run.calls >= 1 =>
        /\ run.exch = 1
        /\ run.toks = {auth_token}
        /\ authenticated

C2_Witness ==
    /\ run.calls >= 2
    /\ lastCall.op = "authenticate"
    /\ lastCall.exchanges = 0

\* C3: when the first request.execute fails with anything but the
\* authentication error, the request was executed once, no credential
\* exchange happened, the failure is what the caller gets, and the session
\* is as it was.
C3_OtherErrorPropagates ==
    (IsExecute /\ lastCall.first = "other_error") =>
        /\ lastCall.executes = 1
        /\ lastCall.exchanges = 0
        /\ lastCall.result = "raised_other"
        /\ Session = lastCall.before

C3_Witness ==
    /\ IsExecute
    /\ lastCall.first = "other_error"
    /\ lastCall.result = "raised_other"
    /\ lastCall.before.authenticated

\* the two auth states of a client
Unauthenticated == ~authenticated /\ auth_token = None

AuthenticatedState == authenticated /\ auth_token # None /\ auth_token = lastToken

\* C4: between operations the client is either Unauthenticated (flag false,
\* no token) or Authenticated (flag true, token of the most recent successful
\* exchange); when the exchange of the forced re-authentication fails, the
\* failure is surfaced, the request is not executed again and the client is
\* Unauthenticated.
C4_TwoAuthStates ==
    /\ (Unauthenticated \/ AuthenticatedState)
    /\ ~(Unauthenticated /\ AuthenticatedState)
    /\ (AuthRetry /\ lastCall.exch # "ok") =>
          /\ lastCall.executes = 1
          /\ lastCall.result \in {"raised_exchange_error", "raised_KeyError"}
          /\ Unauthenticated

C4_Witness ==
    /\ AuthRetry
    /\ lastCall.exch = "raise"
    /\ lastCall.before.authenticated
    /\ lastCall.before.auth_token \in Tokens
    /\ Unauthenticated

\* the network round trips of the last call: every request.execute and every
\* credential exchange
RoundTrips == lastCall.executes + lastCall.exchanges

\* C5 (as stated): a call makes exactly one network round trip when no
\* authentication failure occurs and exactly two on the auth-retry path,
\* counting every network exchange.
C5_AsStated ==
    IsExecute => RoundTrips = (IF lastCall.first = "auth_error" THEN 2 ELSE 1)

\* C5 (amended): a call makes exactly one network round trip when no
\* authentication failure occurs; on the auth-retry path it makes three when
\* the credential exchange succeeds (two executes of the request and the
\* exchange) and two when the exchange fails (one execute and the exchange).
C5_RoundTrips ==
    IsExecute =>
        RoundTrips = (IF lastCall.first # "auth_error" THEN 1
                      ELSE IF lastCall.exch = "ok" THEN 3 ELSE 2)

C5_Witness ==
    /\ AuthRetry
    /\ lastCall.exch = "ok"
    /\ lastCall.second = "ok"
    /\ RoundTrips = 3

\* the credentials the constructor was given
Given(f) == ctor[f] # None

TripleCount == Cardinality({f \in {"username", "password", "account_name"} : Given(f)})

Constructed == pc \in {"ready", "failed"}

\* C6: construction succeeds exactly when one credential alternative is
\* supplied in full and the other not at all: the api key alone, or the whole
\* triple alone.
C6_ExactlyOneAlternative ==
    Constructed =>
        (pc = "ready" <=> \/ (Given("api_key") /\ TripleCount = 0)
                          \/ (~Given("api_key") /\ TripleCount = 3))

\* C7: an api key with one or two fields of the triple is rejected; the api
\* key alone, or the whole triple alone, is accepted and leaves the client
\* Unauthenticated with no token.
C7_PartialTripleRejected ==
    /\ (Constructed /\ Given("api_key") /\ TripleCount \in {1, 2}) => pc = "failed"
    /\ (Constructed /\ (\/ (Given("api_key") /\ TripleCount = 0)
                       \/ (~Given("api_key") /\ TripleCount = 3))) =>
          /\ pc = "ready"
          /\ lastCall.op = "init" => Unauthenticated

C7_Witness ==
    /\ pc = "failed"
    /\ Given("api_key")
    /\ TripleCount = 2
    /\ Given("password")

\* C13: every execution of the request by _execute_request, the retry
\* included, is passed a token exactly when the request's auth_required is
\* true: a request that does not require authentication is never executed
\* with a token, and one that requires it is retried with the fresh token.
C13_TokenIffAuthRequired ==
    IsExecute =>
        /\ \A i \in 1..Len(lastCall.passed) :
              (lastCall.passed[i] # "absent") <=> lastCall.request.auth_required
        /\ (lastCall.request.auth_required /\ lastCall.executes = 2) =>
              /\ lastCall.passed[2] = auth_token
              /\ lastCall.passed[2] = lastToken

(***************************************************************************)
(* Properties of manual_request                                            *)
(***************************************************************************)
IsManual == lastCall.op = "manual"

Answered == IsManual /\ lastCall.response.kind = "response"

Returned == IsManual /\ lastCall.raised = "none"

Is2xx(status) == status \in 200..299

\* C12 as stated: for every response manual_request returns a tuple and never
\* raises: (True, parsedBody["data"]) when the status is 2xx and
\* (False, rawResponse) for every other status.
C12_AsStated ==
    Answered =>
        /\ lastCall.raised = "none"
        /\ Is2xx(lastCall.response.status) =>
              lastCall.flag /\ lastCall.value = lastCall.response.body.data
        /\ ~Is2xx(lastCall.response.status) =>
              ~lastCall.flag /\ lastCall.value = "response"

\* C12: manual_request returns (True, parsedBody["data"]) for a response
\* whose status is below 400, every 2xx included, and whose body is JSON with
\* a "data" key, and (False, rawResponse) for every status from 400 up
\* whatever the body; a response below 400 whose body is not JSON or has no
\* "data" key makes the call raise; whenever a tuple is returned its flag
\* depends on the status alone.
C12_ManualRequestResult ==
    Answered =>
        LET status == lastCall.response.status
            form == lastCall.response.body.form
        IN  /\ status >= 400 =>
                  /\ lastCall.raised = "none"
                  /\ ~lastCall.flag
                  /\ lastCall.value = "response"
            /\ (status < 400 /\ form = "json_data") =>
                  /\ lastCall.raised = "none"
                  /\ lastCall.flag
                  /\ lastCall.value = lastCall.response.body.data
            /\ (status < 400 /\ form # "json_data") => lastCall.raised # "none"
            /\ Returned => (lastCall.flag <=> status < 400)

C12_Witness ==
    /\ Answered
    /\ lastCall.response.status = 200
    /\ lastCall.response.body = [form |-> "json_data", data |-> "d1"]
    /\ lastCall.raised = "none"
    /\ lastCall.flag
    /\ lastCall.value = "d1"

C12_WitnessFailed ==
    /\ Answered
    /\ lastCall.response.status = 401
    /\ lastCall.response.body.form = "json_data"
    /\ lastCall.raised = "none"
    /\ ~lastCall.flag

C12_WitnessRaised ==
    /\ Answered
    /\ lastCall.response.status = 200
    /\ lastCall.response.body.form = "json_nodata"
    /\ lastCall.raised = "KeyError"

\* a step that changes the token or the flag of the session
SessionChanges == authenticated' # authenticated \/ auth_token' # auth_token

\* C14: auth_token and the authenticated flag are changed only by
\* authenticate() and by the authentication-failure branch of
\* _execute_request: a call of _execute_request whose first execute returns or
\* raises another error, and every call of manual_request whatever the
\* response, leave both as they were, and manual_request performs no
\* credential exchange.
C14_SessionFrame ==
    [][/\ SessionChanges =>
             \/ lastCall'.op = "authenticate"
             \/ lastCall'.op = "execute" /\ lastCall'.first = "auth_error"
       /\ (lastCall'.op = "execute" /\ lastCall'.first # "auth_error") =>
             /\ UNCHANGED <<authenticated, auth_token, auth_data, lastToken>>
             /\ lastCall'.exchanges = 0
             /\ lastCall'.executes = 1
       /\ lastCall'.op = "manual" =>
             UNCHANGED <<authenticated, auth_token, auth_data, lastToken, run>>]_vars

C14_Witness ==
    /\ IsManual
    /\ lastCall.response.kind = "response"
    /\ lastCall.response.status = 401
    /\ lastCall.before.authenticated
    /\ lastCall.before.auth_token \in Tokens
    /\ authenticated
    /\ auth_token = lastCall.before.auth_token

(***************************************************************************)
(* Properties of the method table                                          *)
(***************************************************************************)
\* for each operation, the key of its name in method_names and the request
\* its function asks the descriptor for
OperationKey ==
    [list |-> "list", detail |-> "object", update |-> "update",
     create |-> "create", delete |-> "delete"]

OperationRequest ==
    [list |-> "get_list_request", detail |-> "get_object_request",
     update |-> "get_update_object_request", create |-> "get_create_object_request",
     delete |-> "get_delete_object_request"]

\* the (descriptor, supported operation) pairs and the (descriptor, view)
\* pairs of the class body
SupportedOperations ==
    {<<j, op>> \in Declared \X METHOD_TYPES : op \in ClientResources[j].r.methods}

DeclaredViews ==
    UNION {{<<j, i>> : i \in 1..Len(ClientResources[j].views)} : j \in Declared}

\* the generated functions of descriptor j for operation op, and for its view i
MethodsOfOperation(j, op) ==
    {n \in DOMAIN ClassMethods :
        /\ ClassMethods[n].field = ClientResources[j].field
        /\ ClassMethods[n].request_type = OperationRequest[op]}

MethodsOfView(j, i) ==
    {n \in DOMAIN ClassMethods :
        /\ ClassMethods[n].field = ClientResources[j].field
        /\ ClassMethods[n].request_type = None
        /\ n = ClientResources[j].views[i].name}

\* C16: once the class is defined its table holds exactly one generated
\* method for each supported operation of each descriptor and for each extra
\* view, none for an operation a descriptor does not support, under names
\* that are pairwise distinct and differ from the hand-written methods of
\* Client; no later call changes the table.
C16_MethodTable ==
    /\ [](pc # "import" =>
            /\ \A p \in SupportedOperations :
                  MethodsOfOperation(p[1], p[2])
                     = {ClientResources[p[1]].r.method_names[OperationKey[p[2]]]}
            /\ \A p \in (Declared \X METHOD_TYPES) \ SupportedOperations :
                  MethodsOfOperation(p[1], p[2]) = {}
            /\ \A p \in DeclaredViews :
                  MethodsOfView(p[1], p[2]) = {ClientResources[p[1]].views[p[2]].name}
            /\ Cardinality(DOMAIN ClassMethods)
                  = Cardinality(SupportedOperations) + Cardinality(DeclaredViews)
            /\ DOMAIN ClassMethods \cap HandWrittenMethods = {})
    /\ [][pc # "import" => ClassMethods' = ClassMethods]_vars

C16_Witness ==
    /\ pc = "ready"
    /\ lastCall.op = "method"
    /\ lastCall.name = "update_phone_number"
    /\ "delete_phone_number" \in DOMAIN ClassMethods
    /\ "create_phone_number" \notin DOMAIN ClassMethods
    /\ "create_phone_number" \in HandWrittenMethods

====
